---- MODULE Spec2Model ----
(***************************************************************************)
(* Multipart upload orchestration of tanstack-base:                        *)
(*   src/src/hooks/useMultipartUpload.ts  (client: uploadPart,             *)
(*       uploadAllParts, uploadFile, cancelUpload, updateProgress)         *)
(*   src/src/server/uploads.ts            (server functions: initiate,     *)
(*       getUploadPartUrl, complete, abort)                                *)
(*                                                                         *)
(* JavaScript runs one job at a time: a continuation that is ready (a      *)
(* settled promise being awaited) runs before the next I/O event, timer or *)
(* user event is delivered.  The scheduler loop of uploadAllParts is       *)
(* therefore modelled step by step, and every event action is guarded by   *)
(* ~MicrotaskPending.                                                      *)
(***************************************************************************)
EXTENDS Integers, Sequences, FiniteSets, TLC

\* ---------------------------------------------------------------- bounds
\* An upload is explored when partCount * (maxRetries + 1) <= MaxWork.
MaxWork == 4
MaxConc == 3
\* abortMultipartUpload handler runs per session
MaxAbortRuns == 2
\* direct calls of the server functions in one run
MaxCalls == 3
\* part numbers and list lengths handed to completeMultipartUpload directly
MaxPartNumber == 2
MaxListLen == 3
\* failed attempts per part in the end-to-end scenarios
MaxTransient == 2

\* ------------------------------------------------------ program constants
MAX_FILE_SIZE == 1073741824
DEFAULT_PART_SIZE == 10485760
MAX_PARTS == 10000
MAX_FILENAME_LENGTH == 255
DEFAULT_RETRY_DELAY == 1000

ALLOWED_MIME_TYPES ==
  { "image/jpeg", "image/png", "image/webp", "image/gif", "image/svg+xml",
    "application/vnd.ms-package.3dmanufacturing-3dmodel+xml", "model/3mf",
    "model/stl", "application/sla", "application/vnd.ms-pki.stl",
    "text/plain", "application/x-gcode", "text/x-gcode",
    "application/octet-stream" }

\* Error messages (the text after a parameter such as a status code is cut).
ErrCancelled == "Upload cancelled"
ErrAbortError == "AbortError"
ErrTypeError == "Cannot set properties of undefined (setting 'status')"
ErrAuthorize == "Failed to generate upload URL"
ErrStatus == "Upload failed with status"
ErrNoETag == "No ETag returned from upload"
ErrFileTooLarge == "File size exceeds maximum allowed size"
ErrFileEmpty == "File size must be greater than 0"
ErrContentType == "Content type is not allowed"
ErrNoFilename == "Filename is required"
ErrLongFilename == "Filename is too long (max 255 characters)"
ErrTooManyParts == "File is too large for multipart upload"
ErrInitiate == "Failed to initiate upload"
ErrNoParts == "At least one part is required"
ErrMissingPart == "Missing part number"
ErrComplete == "Failed to complete upload"
ErrAbort == "Failed to abort upload"
ErrRequired == "Upload ID and key are required"
ErrPartNumber == "Part number must be between 1 and 10000"
NoError == "null"

VARIABLES
  config,            \* { maxConcurrentUploads, maxRetries, retryDelay, exponentialBackoff }
  file,              \* the File handed to uploadFile: [name (length), size, type]
  state,             \* the hook's UploadState (useState)
  progressSeen,      \* history: the progress values the state has held since uploadFile's reset
  partStatuses,      \* partStatusesRef.current: partNumber -> PartStatus
  abortControllerRef,\* "null" | "live" | "aborted" (current?.signal.aborted)
  ctl,               \* position of uploadFile
  uploadId,          \* uploadFile's local uploadId/key pair ("null" before initiate)
  partCount,         \* initResult.partCount
  result,            \* what uploadFile returned: "pending" | "null" | "key"
  spc,               \* position of uploadAllParts' loop
  nextTask,          \* index into queue of the task the loop is at
  executing,         \* uploadAllParts' executing array (part numbers of the promises)
  parts,             \* uploadAllParts' parts array, in push order
  tpc,               \* position / settlement of each task's promise
  attempt,           \* uploadPart's loop variable, per part
  sleeps,            \* per part, the delays handed to sleep() so far
  authorizeCalls,    \* per part, number of getUploadPartUrl calls started
  transferStarted,   \* per part, whether a PUT was started
  transfers,         \* per part, the PUTs started: the attempt and the URL used
  initPartSize,      \* the partSize initiate answered
  partKeys,          \* the part numbers that are keys of partStatusesRef.current
  second,            \* a second uploadFile invocation on the same hook: its position and file
  queue,             \* the part tasks of uploadAllParts: partNumber and byte range
  submitted,         \* parts lists handed to completeMultipartUpload, in call order
  abortCalls,        \* number of abortMultipartUpload calls issued by uploadFile
  abortResults,      \* outcome of every abortMultipartUpload handler run, in order
  s3Session,         \* the backend's multipart session: "none" | "open" | "completed" | "aborted"
  s3Parts,           \* part numbers the backend was asked to assemble (<< >> before)
  cancelled,         \* history: "no" | "idle" | "inFlight": how cancelUpload found the upload
  startedAtCancel,   \* history: unsettled parts with a started transfer when cancel hit
  cancelPhase,       \* history: where uploadFile was (ctl) when cancelUpload hit; "none" before
  rpc,               \* the last direct call of a server function and what it answered
  rpcCount,          \* number of direct server function calls made
  uploader           \* FileUploader: its handleFileSelect run and the callbacks it fired

vars == << config, file, state, progressSeen, partStatuses, abortControllerRef, ctl,
           uploadId, partCount, result, spc, nextTask, executing, parts, tpc, attempt,
           sleeps, authorizeCalls, transferStarted, transfers, initPartSize, queue, partKeys, second, submitted, abortCalls,
           abortResults, s3Session, s3Parts, cancelled, startedAtCancel, cancelPhase,
           rpc, rpcCount, uploader >>

\* ------------------------------------------------------------ pure helpers
RECURSIVE Pow2(_)
Pow2(n) == IF n = 0 THEN 1 ELSE 2 * Pow2(n - 1)

\* A JavaScript number holds byte counts beyond 2^31 exactly; here such a
\* count is the pair hi * Radix + lo with 0 <= lo < Radix.
Radix == 1073741824

Bytes(n) == [hi |-> n \div Radix, lo |-> n % Radix]

\* a > n, for a byte count a and an integer n
BytesGreater(a, n) ==
  a.hi > Bytes(n).hi \/ (a.hi = Bytes(n).hi /\ a.lo > Bytes(n).lo)

\* Math.ceil(a / b) for a byte count a >= 0 and an integer 0 < b <= Radix
CeilDiv(a, b) ==
  a.hi * (Radix \div b) + (a.hi * (Radix % b) + a.lo + b - 1) \div b

\* RoundPercent with Math.floor in place of Math.round
RoundPercentFloor(u, t) == (100 * u) \div t

\* Math.round((u / t) * 100) for u, t >= 0, t > 0
RoundPercent(u, t) == (200 * u + t) \div (2 * t)

\* Array.prototype.sort((a, b) => a.partNumber - b.partNumber): stable insertion
RECURSIVE InsertByPartNumber(_, _)
InsertByPartNumber(x, s) ==
  IF s = << >> THEN << x >>
  ELSE IF x.partNumber < Head(s).partNumber THEN << x >> \o s
  ELSE << Head(s) >> \o InsertByPartNumber(x, Tail(s))

\* SortByPartNumber that leaves the list in push order
SortByPartNumberNone(s) == s

RECURSIVE SortByPartNumber(_)
SortByPartNumber(s) ==
  IF s = << >> THEN << >>
  ELSE InsertByPartNumber(s[Len(s)], SortByPartNumber(SubSeq(s, 1, Len(s) - 1)))

PartNumbers(s) == [i \in 1..Len(s) |-> s[i].partNumber]

\* ------------------------------------------------------------ server side
\* validateFile with the size limit exclusive (a file of exactly MAX_FILE_SIZE fails)
validateFileExclusiveLimit(filenameLength, fileSize, contentType) ==
  IF BytesGreater(fileSize, MAX_FILE_SIZE - 1) THEN ErrFileTooLarge
  ELSE IF ~BytesGreater(fileSize, 0) THEN ErrFileEmpty
  ELSE IF contentType \notin ALLOWED_MIME_TYPES THEN ErrContentType
  ELSE IF filenameLength = 0 THEN ErrNoFilename
  ELSE IF filenameLength > MAX_FILENAME_LENGTH THEN ErrLongFilename
  ELSE NoError

\* validateFile without the check of the size against MAX_FILE_SIZE
validateFileNoSizeLimit(filenameLength, fileSize, contentType) ==
  IF ~BytesGreater(fileSize, 0) THEN ErrFileEmpty
  ELSE IF contentType \notin ALLOWED_MIME_TYPES THEN ErrContentType
  ELSE IF filenameLength = 0 THEN ErrNoFilename
  ELSE IF filenameLength > MAX_FILENAME_LENGTH THEN ErrLongFilename
  ELSE NoError

validateFile(filenameLength, fileSize, contentType) ==
  IF BytesGreater(fileSize, MAX_FILE_SIZE) THEN ErrFileTooLarge
  ELSE IF ~BytesGreater(fileSize, 0) THEN ErrFileEmpty
  ELSE IF contentType \notin ALLOWED_MIME_TYPES THEN ErrContentType
  ELSE IF filenameLength = 0 THEN ErrNoFilename
  ELSE IF filenameLength > MAX_FILENAME_LENGTH THEN ErrLongFilename
  ELSE NoError

\* calculatePartCount with Math.floor in place of Math.ceil
calculatePartCountFloor(fileSize, partSize) ==
  fileSize.hi * (Radix \div partSize)
    + (fileSize.hi * (Radix % partSize) + fileSize.lo) \div partSize

calculatePartCount(fileSize, partSize) == CeilDiv(fileSize, partSize)

\* initiateMultipartUpload up to the backend call: the error thrown, or NoError
initiateCheck(f) ==
  LET v == validateFile(f.name, f.size, f.type) IN
  IF v # NoError THEN v
  ELSE IF calculatePartCount(f.size, DEFAULT_PART_SIZE) > MAX_PARTS THEN ErrTooManyParts
  ELSE NoError

\* completeMultipartUpload up to the backend call: the error thrown, or NoError
completeCheck(ps) ==
  LET sorted == SortByPartNumber(ps) IN
  IF Len(ps) = 0 THEN ErrNoParts
  ELSE IF \E i \in 1..Len(sorted) : sorted[i].partNumber # i THEN ErrMissingPart
  ELSE NoError

\* the part number completeMultipartUpload's error names (lines 265-269): the
\* first position of the sorted list that does not hold its own number; 0 if none
completeNamed(ps) ==
  LET sorted == SortByPartNumber(ps)
      off == {i \in 1..Len(sorted) : sorted[i].partNumber # i}
  IN IF off = {} THEN 0 ELSE CHOOSE i \in off : \A j \in off : i <= j

\* What the backend may answer to AbortMultipartUpload.  An open session is
\* discarded (or the backend fails); for a session that is gone, S3-compatible
\* backends answer either 204 or 404 NoSuchUpload.
S3AbortResponses(session) ==
  IF session = "open" THEN {"ok", "ServiceUnavailable"}
  ELSE {"ok", "NoSuchUpload", "ServiceUnavailable"}

\* abortMultipartUpload handler: what it returns for a backend response
abortMultipartUpload(response) ==
  IF response = "ok" THEN [success |-> TRUE, error |-> NoError]
  ELSE [success |-> FALSE, error |-> ErrAbort]

\* ------------------------------------------------------------ client side
InitialState ==
  [ isUploading |-> FALSE, progress |-> 0, error |-> NoError, uploadId |-> "null",
    isComplete |-> FALSE, uploadedParts |-> 0, totalParts |-> 0 ]

\* updateProgress applied to the records ps that the map holds under keys, and
\* the previous state st
updateProgress(st, ps, keys) ==
  LET total == Cardinality(keys)
      done == Cardinality({p \in keys : ps[p].status = "completed"})
  IN [st EXCEPT !.progress = IF total > 0 THEN RoundPercent(done, total) ELSE 0,
                !.uploadedParts = done,
                !.totalParts = total]

\* a signal that is read once, before cancelUpload, and so never seen aborted
SignalAbortedStale == FALSE

\* abortControllerRef.current?.signal.aborted
SignalAborted == abortControllerRef = "aborted"

\* RetryDelayFor with the arguments of Math.pow swapped (attempt squared)
RetryDelayForSwappedPow(att) ==
  IF config.exponentialBackoff THEN config.retryDelay * att * att ELSE config.retryDelay

\* retry delay computed after failed attempt number att (0-based), lines 219-221
RetryDelayFor(att) ==
  IF config.exponentialBackoff THEN config.retryDelay * Pow2(att) ELSE config.retryDelay

\* exhaustion test that allows one attempt more
RetriesExhaustedLate(att) == att = config.maxRetries + 1

\* the retry loop's exhaustion test
RetriesExhausted(att) == att = config.maxRetries

Settled(p) == tpc[p] \in {"fulfilled", "rejectedCancelled", "rejectedAborted", "rejectedExhausted",
                        "rejectedTypeError"}
Rejected(p) == tpc[p] \in {"rejectedCancelled", "rejectedAborted", "rejectedExhausted",
                         "rejectedTypeError"}
InFlight == {p \in DOMAIN tpc : tpc[p] \in {"authorizing", "transferring", "sleeping"}}

\* the reason a rejected task promise carries
Reason(p) ==
  IF tpc[p] = "rejectedCancelled" THEN ErrCancelled
  ELSE IF tpc[p] = "rejectedTypeError" THEN ErrTypeError
  ELSE partStatuses[p].error

\* A continuation of uploadAllParts is ready to run.
MicrotaskPending ==
  /\ ctl = "uploading"
  /\ \/ spc = "loop"
     \/ spc = "race" /\ \E i \in 1..Len(executing) : Settled(executing[i])
     \/ spc = "all" /\ \/ \E i \in 1..Len(executing) : Rejected(executing[i])
                       \/ \A i \in 1..Len(executing) : tpc[executing[i]] = "fulfilled"

\* getUploadPartUrlCheck that lets part number 0 through
getUploadPartUrlCheckFromZero(id, partNumber) ==
  IF id = "null" THEN ErrRequired
  ELSE IF partNumber < 0 \/ partNumber > MAX_PARTS THEN ErrPartNumber
  ELSE NoError

\* getUploadPartUrl up to the signing call: the error thrown, or NoError
getUploadPartUrlCheck(id, partNumber) ==
  IF id = "null" THEN ErrRequired
  ELSE IF partNumber < 1 \/ partNumber > MAX_PARTS THEN ErrPartNumber
  ELSE NoError

\* ------------------------------------------------------------ uploadPart
\* Top of one iteration of the retry loop (lines 159-173), for attempt att:
\* the cancellation check, then status/retries, updateProgress and the
\* getUploadPartUrl call. A task that starts (line 157, att = 0) when the map
\* has no record for its part holds undefined: line 166 throws a TypeError,
\* and so does line 204 of the catch block, which rejects the task.
BeginAttempt(p, att) ==
  /\ attempt' = [attempt EXCEPT ![p] = att]
  /\ IF SignalAborted
     THEN /\ tpc' = [tpc EXCEPT ![p] = "rejectedCancelled"]
          /\ UNCHANGED << partStatuses, state, progressSeen, authorizeCalls >>
     ELSE IF att = 0 /\ p \notin partKeys
     THEN /\ tpc' = [tpc EXCEPT ![p] = "rejectedTypeError"]
          /\ UNCHANGED << partStatuses, state, progressSeen, authorizeCalls >>
     ELSE /\ partStatuses' = [partStatuses EXCEPT ![p].status = "uploading",
                                                  ![p].retries = att]
          /\ state' = updateProgress(state, partStatuses', partKeys)
          /\ progressSeen' = progressSeen \cup {state'.progress}
          /\ authorizeCalls' = [authorizeCalls EXCEPT ![p] = @ + 1]
          /\ tpc' = [tpc EXCEPT ![p] = "authorizing"]

\* The catch block (lines 203-230) for an attempt that threw err.
CatchAttempt(p, err) ==
  /\ partStatuses' = [partStatuses EXCEPT ![p].status = "failed", ![p].error = err]
  /\ IF SignalAborted
     THEN tpc' = [tpc EXCEPT ![p] = "rejectedAborted"] /\ UNCHANGED sleeps
     ELSE IF RetriesExhausted(attempt[p])
     THEN tpc' = [tpc EXCEPT ![p] = "rejectedExhausted"] /\ UNCHANGED sleeps
     ELSE /\ tpc' = [tpc EXCEPT ![p] = "sleeping"]
          /\ sleeps' = [sleeps EXCEPT ![p] = Append(@, RetryDelayFor(attempt[p]))]

\* a fetch that goes to the first URL the part was given
PresignedUrlFirst(p) == 1

\* the presignedUrl of the running attempt (lines 171-173, used at 179): the one
\* returned by the part's latest getUploadPartUrl call, named by that call's rank
PresignedUrl(p) == authorizeCalls[p]

\* getUploadPartUrl returns a URL: the PUT is started (fetch with an already
\* aborted signal rejects at once, without a request).
AuthorizeOk(p) ==
  /\ ~MicrotaskPending
  /\ tpc[p] = "authorizing"
  /\ getUploadPartUrlCheck(uploadId, p) = NoError
  /\ IF SignalAborted
     THEN CatchAttempt(p, ErrAbortError) /\ UNCHANGED << transferStarted, transfers >>
     ELSE /\ tpc' = [tpc EXCEPT ![p] = "transferring"]
          /\ transferStarted' = [transferStarted EXCEPT ![p] = TRUE]
          /\ transfers' = [transfers EXCEPT
                            ![p] = Append(@, [attempt |-> attempt[p], url |-> PresignedUrl(p)])]
          /\ UNCHANGED << partStatuses, sleeps >>
  /\ UNCHANGED << config, file, state, progressSeen, abortControllerRef, ctl, uploadId, partCount,
                  result, spc, nextTask, executing, parts, attempt, authorizeCalls,
                  initPartSize, queue, partKeys, second, submitted, abortCalls, abortResults, s3Session, s3Parts,
                  cancelled, startedAtCancel, cancelPhase, rpc, rpcCount, uploader >>

\* getUploadPartUrl throws (validation, or the signer failed).
AuthorizeFail(p) ==
  /\ ~MicrotaskPending
  /\ tpc[p] = "authorizing"
  /\ CatchAttempt(p, IF getUploadPartUrlCheck(uploadId, p) = NoError
                     THEN ErrAuthorize ELSE getUploadPartUrlCheck(uploadId, p))
  /\ UNCHANGED << config, file, state, progressSeen, abortControllerRef, ctl, uploadId, partCount,
                  result, spc, nextTask, executing, parts, attempt, authorizeCalls,
                  transferStarted, transfers, initPartSize, queue, partKeys, second, submitted, abortCalls, abortResults, s3Session,
                  s3Parts, cancelled, startedAtCancel, cancelPhase, rpc, rpcCount, uploader >>

\* the responses of a PUT: response.ok and the ETag header ("" when the header
\* is absent or empty, which `!etag` treats alike)
Responses ==
  { [ok |-> TRUE, etag |-> "etag"], [ok |-> TRUE, etag |-> ""],
    [ok |-> FALSE, etag |-> ""], [ok |-> FALSE, etag |-> "etag"] }

\* responseCheck that takes any 2xx answer
responseCheckStatusOnly(r) ==
  IF ~r.ok THEN ErrStatus ELSE NoError

\* lines 188-196: the error thrown for a response, or NoError
responseCheck(r) ==
  IF ~r.ok THEN ErrStatus
  ELSE IF r.etag = "" THEN ErrNoETag
  ELSE NoError

\* The PUT answers 2xx with an ETag header (lines 188-202, then line 269).
\* The backend stores a part only for a session that is still open.
TransferOk(p) ==
  /\ ~MicrotaskPending
  /\ tpc[p] = "transferring"
  /\ s3Session = "open"
  /\ \E r \in Responses :
       /\ responseCheck(r) = NoError
       /\ partStatuses' = [partStatuses EXCEPT ![p].status = "completed", ![p].etag = r.etag]
       /\ parts' = Append(parts, [partNumber |-> p, etag |-> r.etag])
  /\ state' = updateProgress(state, partStatuses', partKeys)
  /\ progressSeen' = progressSeen \cup {state'.progress}
  /\ tpc' = [tpc EXCEPT ![p] = "fulfilled"]
  /\ UNCHANGED << config, file, abortControllerRef, ctl, uploadId, partCount, result,
                  spc, nextTask, executing, attempt, sleeps, authorizeCalls,
                  transferStarted, transfers, initPartSize, queue, partKeys, second, submitted, abortCalls, abortResults, s3Session,
                  s3Parts, cancelled, startedAtCancel, cancelPhase, rpc, rpcCount, uploader >>

\* The PUT answers with a non-2xx status, or 2xx without an ETag header.
TransferFail(p, err) ==
  /\ ~MicrotaskPending
  /\ tpc[p] = "transferring"
  /\ \E r \in Responses : responseCheck(r) = err
  /\ CatchAttempt(p, err)
  /\ UNCHANGED << config, file, state, progressSeen, abortControllerRef, ctl, uploadId, partCount,
                  result, spc, nextTask, executing, parts, attempt, authorizeCalls,
                  transferStarted, transfers, initPartSize, queue, partKeys, second, submitted, abortCalls, abortResults, s3Session,
                  s3Parts, cancelled, startedAtCancel, cancelPhase, rpc, rpcCount, uploader >>

\* sleep(delay) elapses: the loop goes to its next iteration.
Wake(p) ==
  /\ ~MicrotaskPending
  /\ tpc[p] = "sleeping"
  /\ BeginAttempt(p, attempt[p] + 1)
  /\ UNCHANGED << config, file, abortControllerRef, ctl, uploadId, partCount, result,
                  spc, nextTask, executing, parts, sleeps, transferStarted, transfers, initPartSize, queue, partKeys, second, submitted,
                  abortCalls, abortResults, s3Session, s3Parts, cancelled,
                  startedAtCancel, cancelPhase, rpc, rpcCount, uploader >>

\* ------------------------------------------------------------ uploadFile
\* ShouldAbortSession that skips the cleanup of a cancelled upload
ShouldAbortSessionUnlessCancelled == uploadId # "null" /\ ~SignalAborted

\* ShouldAbortSession that cleans up whether or not a session was opened
ShouldAbortSessionAlways == TRUE

\* line 381: if (uploadId && key)
ShouldAbortSession == uploadId # "null"

\* FileUploader.handleFileSelect, lines 105-109, once uploadFile resolved to res:
\* closureError is the error of the render the handler was created in
handleFileSelectAfter(res, closureError) ==
  IF res = "key"
  THEN Append(uploader.callbacks, [name |-> "onUploadComplete", arg |-> "key"])
  ELSE IF closureError # NoError
  THEN Append(uploader.callbacks, [name |-> "onUploadError", arg |-> closureError])
  ELSE uploader.callbacks

\* uploadFile resolves to res: a handleFileSelect awaiting it goes on at once
Returned(res) ==
  /\ result' = res
  /\ uploader' = IF uploader.handler = "awaiting"
                 THEN [uploader EXCEPT !.handler = "returned",
                                       !.callbacks = handleFileSelectAfter(res, uploader.error)]
                 ELSE uploader

\* FailedState that leaves isUploading set
FailedStateStillUploading(st, err) == [st EXCEPT !.error = err]

\* lines 374-378: the state after uploadFile caught err
FailedState(st, err) == [st EXCEPT !.isUploading = FALSE, !.error = err]

\* The catch/finally of uploadFile (lines 370-394) up to the abort call.
CatchUpload(err) ==
  /\ state' = FailedState(state, err)
  /\ UNCHANGED progressSeen
  /\ IF ShouldAbortSession
     THEN /\ abortCalls' = abortCalls + 1
          /\ ctl' = "aborting"
          /\ UNCHANGED << result, abortControllerRef, uploader >>
     ELSE /\ ctl' = "done"
          /\ Returned("null")
          /\ abortControllerRef' = "null"
          /\ UNCHANGED abortCalls

Files ==
  { [name |-> 8, size |-> Bytes((n - 1) * DEFAULT_PART_SIZE + 1), type |-> "image/png"] :
      n \in 1..MaxWork }
  \cup { [name |-> 8, size |-> Bytes(0), type |-> "image/png"],
         [name |-> 8, size |-> Bytes(1), type |-> "application/zip"] }

NoFile == [name |-> 0, size |-> Bytes(0), type |-> "none"]

\* the uploads explored: partCount * (maxRetries + 1) <= MaxWork
Explored(f) ==
  calculatePartCount(f.size, DEFAULT_PART_SIZE) * (config.maxRetries + 1) <= MaxWork

\* uploadFile, lines 301-329: reset the state, create the AbortController and
\* call initiateMultipartUpload.
UploadFile(f) ==
  /\ ctl = "idle"
  /\ file' = f
  /\ state' = [InitialState EXCEPT !.isUploading = TRUE]
  /\ progressSeen' = {state'.progress}
  /\ abortControllerRef' = "live"
  /\ ctl' = "initiating"
  /\ UNCHANGED << config, partStatuses, uploadId, partCount, result, spc, nextTask,
                  executing, parts, tpc, attempt, sleeps, authorizeCalls,
                  transferStarted, transfers, initPartSize, queue, partKeys, second, submitted, abortCalls, abortResults, s3Session,
                  s3Parts, cancelled, startedAtCancel, cancelPhase, rpc, rpcCount >>

\* file.size as a number, for a byte count below 2^31
SizeOf(a) == a.hi * Radix + a.lo

\* line 264
partStart(partNumber, ps) == (partNumber - 1) * ps

\* the end of a part without the clamp to the file size
partEndUnclamped(start, ps, fileSize) == start + ps

\* line 265: Math.min(start + partSize, file.size)
partEnd(start, ps, fileSize) ==
  IF start + ps < fileSize THEN start + ps ELSE fileSize

\* lines 259-271: the queue of part tasks, each bound to its byte range
Queue(fileSize, ps, count) ==
  [n \in 1..count |-> [partNumber |-> n, start |-> partStart(n, ps),
                       end |-> partEnd(partStart(n, ps), ps, fileSize)]]

\* initiateMultipartUpload returns a session: uploadFile stores it and enters
\* uploadAllParts, which initialises the part statuses and the queue
\* (lines 331-274).
InitiateOk ==
  /\ ctl = "initiating"
  /\ initiateCheck(file) = NoError
  /\ LET n == calculatePartCount(file.size, DEFAULT_PART_SIZE) IN
     /\ partCount' = n
     /\ partStatuses' = [p \in 1..n |-> [partNumber |-> p, status |-> "pending",
                                         retries |-> 0, etag |-> "", error |-> NoError]]
     /\ tpc' = [p \in 1..n |-> "queued"]
     /\ attempt' = [p \in 1..n |-> 0]
     /\ sleeps' = [p \in 1..n |-> << >>]
     /\ authorizeCalls' = [p \in 1..n |-> 0]
     /\ transferStarted' = [p \in 1..n |-> FALSE]
     /\ transfers' = [p \in 1..n |-> << >>]
     /\ initPartSize' = DEFAULT_PART_SIZE
     /\ partKeys' = 1..n
     /\ queue' = Queue(SizeOf(file.size), DEFAULT_PART_SIZE, n)
     /\ state' = [state EXCEPT !.uploadId = "upload-1", !.totalParts = n]
     /\ UNCHANGED progressSeen
  /\ uploadId' = "upload-1"
  /\ s3Session' = "open"
  /\ ctl' = "uploading"
  /\ spc' = "loop"
  /\ nextTask' = 1
  /\ executing' = << >>
  /\ parts' = << >>
  /\ UNCHANGED << config, file, abortControllerRef, result, submitted, abortCalls, second,
                  abortResults, s3Parts, cancelled, startedAtCancel, cancelPhase, rpc, rpcCount, uploader >>

\* initiateMultipartUpload throws: validation, too many parts, or the backend
\* call failed / returned no UploadId.
InitiateFail ==
  /\ ctl = "initiating"
  /\ CatchUpload(IF initiateCheck(file) = NoError THEN ErrInitiate ELSE initiateCheck(file))
  /\ UNCHANGED << config, file, partStatuses, uploadId, partCount, spc, nextTask,
                  executing, parts, tpc, attempt, sleeps, authorizeCalls,
                  transferStarted, transfers, initPartSize, queue, partKeys, second, submitted, abortResults, s3Session, s3Parts,
                  cancelled, startedAtCancel, cancelPhase, rpc, rpcCount >>

\* ---------------------------------------------------------- uploadAllParts
\* a loop that goes on taking tasks after uploadAllParts has thrown
SchedStartTaskAfterFailure ==
  LET next == IF spc = "threw" THEN nextTask + 1 ELSE nextTask IN
  /\ spc \in {"loop", "threw"}
  /\ next <= partCount
  /\ BeginAttempt(next, 0)
  /\ executing' = Append(executing, next)
  /\ IF Len(executing') >= config.maxConcurrentUploads
     THEN spc' = "race" /\ nextTask' = next
     ELSE spc' = "loop" /\ nextTask' = next + 1
  /\ UNCHANGED << config, file, abortControllerRef, ctl, uploadId, partCount, result,
                  parts, sleeps, transferStarted, transfers, initPartSize, queue, partKeys, second, submitted, abortCalls, abortResults,
                  s3Session, s3Parts, cancelled, startedAtCancel, cancelPhase, rpc, rpcCount, uploader >>

\* a loop that awaits the race one task below the limit
SchedStartTaskBelowLimit ==
  /\ ctl = "uploading"
  /\ spc = "loop"
  /\ nextTask <= partCount
  /\ BeginAttempt(nextTask, 0)
  /\ executing' = Append(executing, nextTask)
  /\ IF Len(executing') >= config.maxConcurrentUploads - 1
     THEN spc' = "race" /\ UNCHANGED nextTask
     ELSE spc' = "loop" /\ nextTask' = nextTask + 1
  /\ UNCHANGED << config, file, abortControllerRef, ctl, uploadId, partCount, result,
                  parts, sleeps, transferStarted, transfers, initPartSize, queue, partKeys, second, submitted, abortCalls, abortResults,
                  s3Session, s3Parts, cancelled, startedAtCancel, cancelPhase, rpc, rpcCount, uploader >>

\* lines 275-279: the loop takes the next task, starts it (uploadPart runs up
\* to its first await), pushes its promise and, at the limit, awaits the race.
SchedStartTask ==
  /\ ctl = "uploading"
  /\ spc = "loop"
  /\ nextTask <= partCount
  /\ BeginAttempt(nextTask, 0)
  /\ executing' = Append(executing, nextTask)
  /\ IF Len(executing') >= config.maxConcurrentUploads
     THEN spc' = "race" /\ UNCHANGED nextTask
     ELSE spc' = "loop" /\ nextTask' = nextTask + 1
  /\ UNCHANGED << config, file, abortControllerRef, ctl, uploadId, partCount, result,
                  parts, sleeps, transferStarted, transfers, initPartSize, queue, partKeys, second, submitted, abortCalls, abortResults,
                  s3Session, s3Parts, cancelled, startedAtCancel, cancelPhase, rpc, rpcCount, uploader >>

\* index of the first settled promise of executing, the one Promise.race follows
FirstSettled == CHOOSE i \in 1..Len(executing) :
                  /\ Settled(executing[i])
                  /\ \A j \in 1..(i - 1) : ~Settled(executing[j])

\* executing.findIndex((p) => p === promise), 1-based; 0 when absent
FindIndex(promise) ==
  IF \E i \in 1..Len(executing) : executing[i] = promise
  THEN CHOOSE i \in 1..Len(executing) :
         executing[i] = promise /\ \A j \in 1..(i - 1) : executing[j] # promise
  ELSE 0

\* executing.splice(i, 1) for a 1-based i; splice(-1, 1) removes the last element
Splice(i) ==
  LET k == IF i = 0 THEN Len(executing) ELSE i IN
  SubSeq(executing, 1, k - 1) \o SubSeq(executing, k + 1, Len(executing))

\* lines 280-284: Promise.race fulfilled; the promise just started is spliced out.
SchedRaceFulfilled ==
  /\ ctl = "uploading"
  /\ spc = "race"
  /\ \E i \in 1..Len(executing) : Settled(executing[i])
  /\ ~Rejected(executing[FirstSettled])
  /\ executing' = Splice(FindIndex(nextTask))
  /\ nextTask' = nextTask + 1
  /\ spc' = "loop"
  /\ UNCHANGED << config, file, state, progressSeen, partStatuses, abortControllerRef, ctl, uploadId,
                  partCount, result, parts, tpc, attempt, sleeps, authorizeCalls,
                  transferStarted, transfers, initPartSize, queue, partKeys, second, submitted, abortCalls, abortResults, s3Session,
                  s3Parts, cancelled, startedAtCancel, cancelPhase, rpc, rpcCount, uploader >>

\* line 280: Promise.race rejected; uploadAllParts throws into uploadFile's catch.
SchedRaceRejected ==
  /\ ctl = "uploading"
  /\ spc = "race"
  /\ \E i \in 1..Len(executing) : Settled(executing[i])
  /\ Rejected(executing[FirstSettled])
  /\ spc' = "threw"
  /\ CatchUpload(Reason(executing[FirstSettled]))
  /\ UNCHANGED << config, file, partStatuses, uploadId, partCount, nextTask, executing,
                  parts, tpc, attempt, sleeps, authorizeCalls, transferStarted, transfers, initPartSize, queue, partKeys, second,
                  submitted, abortResults, s3Session, s3Parts, cancelled,
                  startedAtCancel, cancelPhase, rpc, rpcCount >>

\* the for loop is over: line 289 awaits Promise.all(executing)
SchedLoopEnd ==
  /\ ctl = "uploading"
  /\ spc = "loop"
  /\ nextTask > partCount
  /\ spc' = "all"
  /\ UNCHANGED << config, file, state, progressSeen, partStatuses, abortControllerRef, ctl, uploadId,
                  partCount, result, nextTask, executing, parts, tpc, attempt, sleeps,
                  authorizeCalls, transferStarted, transfers, initPartSize, queue, partKeys, second, submitted, abortCalls, abortResults,
                  s3Session, s3Parts, cancelled, startedAtCancel, cancelPhase, rpc, rpcCount, uploader >>

\* line 289 rejected: the first rejected promise of executing decides.
SchedAllRejected ==
  /\ ctl = "uploading"
  /\ spc = "all"
  /\ \E i \in 1..Len(executing) : Rejected(executing[i])
  /\ LET i == CHOOSE i \in 1..Len(executing) :
                /\ Rejected(executing[i])
                /\ \A j \in 1..(i - 1) : ~Rejected(executing[j])
     IN CatchUpload(Reason(executing[i]))
  /\ spc' = "threw"
  /\ UNCHANGED << config, file, partStatuses, uploadId, partCount, nextTask, executing,
                  parts, tpc, attempt, sleeps, authorizeCalls, transferStarted, transfers, initPartSize, queue, partKeys, second,
                  submitted, abortResults, s3Session, s3Parts, cancelled,
                  startedAtCancel, cancelPhase, rpc, rpcCount >>

\* CompleteCalls that sends the request a second time
CompleteCallsTwice(ps) == Append(Append(submitted, ps), ps)

\* lines 351-357: the completeMultipartUpload calls made so far, with the one
\* for the parts list ps
CompleteCalls(ps) == Append(submitted, ps)

\* lines 289-292 and 351: Promise.all fulfilled; uploadAllParts returns the
\* sorted parts and uploadFile calls completeMultipartUpload with them.
SchedAllFulfilled ==
  /\ ctl = "uploading"
  /\ spc = "all"
  /\ \A i \in 1..Len(executing) : tpc[executing[i]] = "fulfilled"
  /\ spc' = "returned"
  /\ submitted' = CompleteCalls(SortByPartNumber(parts))
  /\ ctl' = "completing"
  /\ UNCHANGED << config, file, state, progressSeen, partStatuses, abortControllerRef, uploadId,
                  partCount, result, nextTask, executing, parts, tpc, attempt, sleeps,
                  authorizeCalls, transferStarted, transfers, initPartSize, queue, partKeys, second, abortCalls, abortResults, s3Session,
                  s3Parts, cancelled, startedAtCancel, cancelPhase, rpc, rpcCount, uploader >>

\* ------------------------------------------------- complete, abort, cancel
LastSubmitted == submitted[Len(submitted)]

\* lines 359-364: the state after completeMultipartUpload resolved
CompletedState(st) == [st EXCEPT !.isUploading = FALSE, !.isComplete = TRUE, !.progress = 100]

\* completeMultipartUpload succeeded: lines 359-369, then finally.
CompleteOk ==
  /\ ctl = "completing"
  /\ completeCheck(LastSubmitted) = NoError
  /\ s3Session = "open"
  /\ s3Parts' = PartNumbers(SortByPartNumber(LastSubmitted))
  /\ s3Session' = "completed"
  /\ state' = CompletedState(state)
  /\ progressSeen' = progressSeen \cup {state'.progress}
  /\ Returned("key")
  /\ abortControllerRef' = "null"
  /\ ctl' = "done"
  /\ UNCHANGED << config, file, partStatuses, uploadId, partCount, spc, nextTask,
                  executing, parts, tpc, attempt, sleeps, authorizeCalls,
                  transferStarted, transfers, initPartSize, queue, partKeys, second, submitted, abortCalls, abortResults, cancelled,
                  startedAtCancel, cancelPhase, rpc, rpcCount >>

\* completeMultipartUpload threw: its own validation (the backend is not
\* called), or the backend call failed; with lost = TRUE the backend assembled
\* the object but the answer did not arrive.
CompleteFail(lost) ==
  /\ ctl = "completing"
  /\ IF completeCheck(LastSubmitted) # NoError
     THEN /\ ~lost
          /\ CatchUpload(completeCheck(LastSubmitted))
          /\ UNCHANGED << s3Parts, s3Session >>
     ELSE /\ CatchUpload(ErrComplete)
          /\ s3Parts' = PartNumbers(SortByPartNumber(LastSubmitted))
          /\ s3Session' = IF lost /\ s3Session = "open" THEN "completed" ELSE s3Session
  /\ UNCHANGED << config, file, partStatuses, uploadId, partCount, spc, nextTask,
                  executing, parts, tpc, attempt, sleeps, authorizeCalls,
                  transferStarted, transfers, initPartSize, queue, partKeys, second, submitted, abortResults, cancelled, startedAtCancel, cancelPhase, rpc, rpcCount >>

\* the backend's session after it answered an abort with response
S3AfterAbort(session, response) ==
  IF response = "ok" /\ session = "open" THEN "aborted" ELSE session

\* StateAfterAbort that surfaces the abort call's own failure
StateAfterAbortEscalated(st, outcome) ==
  IF outcome.success THEN st ELSE [st EXCEPT !.error = outcome.error]

\* lines 382-388: the state after the abort call ended with outcome; a thrown
\* abort error is only logged
StateAfterAbort(st, outcome) == st

\* The abort call of uploadFile's catch returns or throws (lines 382-394):
\* either way uploadFile returns null after the finally block.
AbortReturn(response) ==
  /\ ctl = "aborting"
  /\ response \in S3AbortResponses(s3Session)
  /\ abortResults' = Append(abortResults, [response |-> response,
                                        success |-> abortMultipartUpload(response).success])
  /\ s3Session' = S3AfterAbort(s3Session, response)
  /\ state' = StateAfterAbort(state, abortMultipartUpload(response))
  /\ Returned("null")
  /\ abortControllerRef' = "null"
  /\ ctl' = "done"
  /\ UNCHANGED << config, file, progressSeen, partStatuses, uploadId, partCount, spc, nextTask,
                  executing, parts, tpc, attempt, sleeps, authorizeCalls,
                  transferStarted, transfers, initPartSize, queue, partKeys, second, submitted, abortCalls, s3Parts, cancelled,
                  startedAtCancel, cancelPhase, rpc, rpcCount >>

\* A client calls the abortMultipartUpload server function again for the
\* session of a finished upload (explored for the uploads that were not
\* cancelled, once every task has settled: the server function does not
\* depend on the hook's state).
AbortAgain(response) ==
  /\ ctl = "done"
  /\ uploadId # "null"
  /\ InFlight = {}
  /\ Len(abortResults) < MaxAbortRuns
  /\ cancelled = "no"
  /\ response \in S3AbortResponses(s3Session)
  /\ abortResults' = Append(abortResults, [response |-> response,
                                        success |-> abortMultipartUpload(response).success])
  /\ s3Session' = S3AfterAbort(s3Session, response)
  /\ UNCHANGED << config, file, state, progressSeen, partStatuses, abortControllerRef, ctl, uploadId,
                  partCount, result, spc, nextTask, executing, parts, tpc, attempt,
                  sleeps, authorizeCalls, transferStarted, transfers, initPartSize, queue, partKeys, second, submitted, abortCalls,
                  s3Parts, cancelled, startedAtCancel, cancelPhase, rpc, rpcCount, uploader >>

\* a cancelUpload that also marks the completed parts failed
CancelUploadDiscards ==
  /\ ~MicrotaskPending
  /\ abortControllerRef = "live"
  /\ abortControllerRef' = "aborted"
  /\ partStatuses' = [p \in DOMAIN partStatuses |->
                        IF tpc[p] \in {"transferring", "fulfilled"}
                        THEN [partStatuses[p] EXCEPT !.status = "failed", !.error = ErrAbortError]
                        ELSE partStatuses[p]]
  /\ tpc' = [p \in DOMAIN tpc |-> IF tpc[p] = "transferring" THEN "rejectedAborted" ELSE tpc[p]]
  /\ cancelled' = IF InFlight # {} THEN "inFlight" ELSE "idle"
  /\ startedAtCancel' = {p \in InFlight : transferStarted[p]}
  /\ cancelPhase' = ctl
  /\ UNCHANGED << config, file, state, progressSeen, ctl, uploadId, partCount, result, spc, nextTask,
                  executing, parts, attempt, sleeps, authorizeCalls, transferStarted, transfers, initPartSize, queue, partKeys, second,
                  submitted, abortCalls, abortResults, s3Session, s3Parts, rpc, rpcCount, uploader >>

\* cancelUpload (lines 402-406) with a controller present: the signal fires and
\* every PUT in flight rejects with an AbortError, which its task's catch block
\* turns into a rejection (lines 203-211).  Without a controller it does nothing.
CancelUpload ==
  /\ ~MicrotaskPending
  /\ abortControllerRef = "live"
  /\ abortControllerRef' = "aborted"
  /\ partStatuses' = [p \in DOMAIN partStatuses |->
                        IF tpc[p] = "transferring"
                        THEN [partStatuses[p] EXCEPT !.status = "failed", !.error = ErrAbortError]
                        ELSE partStatuses[p]]
  /\ tpc' = [p \in DOMAIN tpc |-> IF tpc[p] = "transferring" THEN "rejectedAborted" ELSE tpc[p]]
  /\ cancelled' = IF InFlight # {} THEN "inFlight" ELSE "idle"
  /\ startedAtCancel' = {p \in InFlight : transferStarted[p]}
  /\ cancelPhase' = ctl
  /\ UNCHANGED << config, file, state, progressSeen, ctl, uploadId, partCount, result, spc, nextTask,
                  executing, parts, attempt, sleeps, authorizeCalls, transferStarted, transfers, initPartSize, queue, partKeys, second,
                  submitted, abortCalls, abortResults, s3Session, s3Parts, rpc, rpcCount, uploader >>

\* reset (lines 411-423): the state goes back to its initial value and the map
\* of part statuses is cleared, whatever the hook is doing.
Reset ==
  /\ state' = InitialState
  /\ progressSeen' = progressSeen \cup {state'.progress}
  /\ partKeys' = {}
  /\ UNCHANGED << config, file, partStatuses, abortControllerRef, ctl, uploadId, partCount,
                  result, spc, nextTask, executing, parts, tpc, attempt, sleeps,
                  authorizeCalls, transferStarted, transfers, initPartSize, queue, second,
                  submitted, abortCalls, abortResults, s3Session, s3Parts, cancelled,
                  startedAtCancel, cancelPhase, rpc, rpcCount, uploader >>

\* ------------------------------------------ the server functions, called directly
hookVars == << config, file, state, progressSeen, partStatuses, abortControllerRef, ctl,
               uploadId, partCount, result, spc, nextTask, executing, parts, tpc,
               attempt, sleeps, authorizeCalls, transferStarted, transfers, initPartSize, queue, partKeys, second, submitted, abortCalls,
               abortResults, cancelled, startedAtCancel, cancelPhase, uploader >>

\* bookkeeping of a direct call: the answer, and how many calls made the same request
Answer(fn, request, backend, error, value) ==
  /\ rpcCount < MaxCalls
  /\ rpcCount' = rpcCount + 1
  /\ rpc' = [fn |-> fn, request |-> request, backend |-> backend, error |-> error,
             value |-> value,
             repeats |-> IF rpc.fn = fn /\ rpc.request = request THEN rpc.repeats + 1 ELSE 0]

\* initiateMultipartUpload (lines 126-178) for request req; backend is what
\* s3Client.send answers when the handler gets that far.
InitiateCall(req, backend) ==
  /\ IF initiateCheck(req) # NoError
     THEN /\ backend = "none"
          /\ Answer("initiate", req, backend, initiateCheck(req), 0)
          /\ UNCHANGED s3Session
     ELSE IF backend = "ok"
     THEN /\ Answer("initiate", req, backend, NoError,
                    calculatePartCount(req.size, DEFAULT_PART_SIZE))
          /\ s3Session' = "open"
     ELSE /\ backend = "error"
          /\ Answer("initiate", req, backend, ErrInitiate, 0)
          /\ UNCHANGED s3Session
  /\ UNCHANGED << hookVars, s3Parts >>

\* getUploadPartUrl (lines 192-230); backend is what getSignedUrl answers.
GetUploadPartUrlCall(id, partNumber, backend) ==
  /\ LET req == [uploadId |-> id, partNumber |-> partNumber] IN
     IF getUploadPartUrlCheck(id, partNumber) # NoError
     THEN /\ backend = "none"
          /\ Answer("getUploadPartUrl", req, backend, getUploadPartUrlCheck(id, partNumber), 0)
     ELSE IF backend = "ok"
     THEN Answer("getUploadPartUrl", req, backend, NoError, partNumber)
     ELSE /\ backend = "error"
          /\ Answer("getUploadPartUrl", req, backend, ErrAuthorize, 0)
  /\ UNCHANGED << hookVars, s3Session, s3Parts >>

\* completeMultipartUpload (lines 244-298) for the parts list ps; the backend
\* assembles the object only for an open session.
CompleteCall(ps, backend) ==
  /\ LET req == [uploadId |-> "upload-1", parts |-> ps] IN
     IF completeCheck(ps) # NoError
     THEN /\ backend = "none"
          /\ Answer("complete", req, backend, completeCheck(ps), completeNamed(ps))
          /\ UNCHANGED << s3Session, s3Parts >>
     ELSE IF backend = "ok"
     THEN /\ s3Session = "open"
          /\ Answer("complete", req, backend, NoError, 0)
          /\ s3Session' = "completed"
          /\ s3Parts' = PartNumbers(SortByPartNumber(ps))
     ELSE /\ backend = "error"
          /\ Answer("complete", req, backend, ErrComplete, 0)
          /\ UNCHANGED << s3Session, s3Parts >>
  /\ UNCHANGED hookVars

\* ------------------------------------------------------------ specification
\* exponentialBackoff is read only when a retry happens (maxRetries > 0).
Configs ==
  { c \in [ maxConcurrentUploads : 1..MaxConc,
            maxRetries : 0..(MaxWork - 1),
            retryDelay : {DEFAULT_RETRY_DELAY},
            exponentialBackoff : BOOLEAN ] :
      c.maxRetries = 0 => c.exponentialBackoff }

NoCall == [fn |-> "none", request |-> << >>, backend |-> "none", error |-> NoError,
           value |-> 0, repeats |-> 0]

\* everything but the configuration, as useMultipartUpload leaves it
InitHook ==
  /\ file = NoFile
  /\ state = InitialState
  /\ progressSeen = {0}
  /\ partStatuses = << >>
  /\ abortControllerRef = "null"
  /\ ctl = "idle"
  /\ uploadId = "null"
  /\ partCount = 0
  /\ result = "pending"
  /\ spc = "idle"
  /\ nextTask = 0
  /\ executing = << >>
  /\ parts = << >>
  /\ tpc = << >>
  /\ attempt = << >>
  /\ sleeps = << >>
  /\ authorizeCalls = << >>
  /\ transferStarted = << >>
  /\ transfers = << >>
  /\ initPartSize = 0
  /\ partKeys = {}
  /\ second = [ctl |-> "none", file |-> NoFile]
  /\ queue = << >>
  /\ submitted = << >>
  /\ abortCalls = 0
  /\ abortResults = << >>
  /\ s3Session = "none"
  /\ s3Parts = << >>
  /\ cancelled = "no"
  /\ startedAtCancel = {}
  /\ cancelPhase = "none"
  /\ rpc = NoCall
  /\ rpcCount = 0
  /\ uploader = [handler |-> "none", error |-> NoError, callbacks |-> << >>]

Init == config \in Configs /\ InitHook

TransferErrors == {ErrStatus, ErrNoETag}

Next ==
  \/ \E f \in Files : Explored(f) /\ UploadFile(f) /\ UNCHANGED uploader
  \/ InitiateOk
  \/ InitiateFail
  \/ SchedStartTask
  \/ SchedRaceFulfilled
  \/ SchedRaceRejected
  \/ SchedLoopEnd
  \/ SchedAllRejected
  \/ SchedAllFulfilled
  \/ \E p \in DOMAIN tpc : AuthorizeOk(p)
  \/ \E p \in DOMAIN tpc : AuthorizeFail(p)
  \/ \E p \in DOMAIN tpc : TransferOk(p)
  \/ \E p \in DOMAIN tpc, e \in TransferErrors : TransferFail(p, e)
  \/ \E p \in DOMAIN tpc : Wake(p)
  \/ CompleteOk
  \/ \E lost \in BOOLEAN : CompleteFail(lost)
  \/ \E r \in {"ok", "NoSuchUpload", "ServiceUnavailable"} : AbortReturn(r)
  \/ \E r \in {"ok", "NoSuchUpload", "ServiceUnavailable"} : AbortAgain(r)
  \/ CancelUpload

Spec == Init /\ [][Next]_vars

\* ---------------------------------------- specification of the server functions
DEFAULT_CONFIG ==
  [ maxConcurrentUploads |-> 4, maxRetries |-> 3, retryDelay |-> DEFAULT_RETRY_DELAY,
    exponentialBackoff |-> TRUE ]

FilenameLengths == {0, 1, MAX_FILENAME_LENGTH, MAX_FILENAME_LENGTH + 1}

\* around zero, the part size and the size limit, 25 MiB, and a size of more
\* than MAX_PARTS parts (98 GiB)
FileSizes ==
  { Bytes(-1), Bytes(0), Bytes(1), Bytes(DEFAULT_PART_SIZE), Bytes(DEFAULT_PART_SIZE + 1),
    Bytes(25 * 1024 * 1024), Bytes(MAX_FILE_SIZE - 1), Bytes(MAX_FILE_SIZE),
    Bytes(MAX_FILE_SIZE + 1), [hi |-> 98, lo |-> 0] }

ContentTypes == {"image/png", "application/zip"}

InitiateRequests ==
  { [name |-> n, size |-> s, type |-> ty] :
      n \in FilenameLengths, s \in FileSizes, ty \in ContentTypes }

PartNumberInputs == {-1, 0, 1, 2, MAX_PARTS, MAX_PARTS + 1}

RECURSIVE PartLists(_)
PartLists(len) ==
  IF len = 0 THEN { << >> }
  ELSE PartLists(len - 1) \cup
       { Append(ps, [partNumber |-> k, etag |-> "etag"]) :
           ps \in {q \in PartLists(len - 1) : Len(q) = len - 1}, k \in 1..MaxPartNumber }

BackendAnswers == {"none", "ok", "error"}

InitServer == config = DEFAULT_CONFIG /\ InitHook

NextServer ==
  \/ \E req \in InitiateRequests, b \in BackendAnswers : InitiateCall(req, b)
  \/ \E id \in {"null", "upload-1"}, pn \in PartNumberInputs, b \in BackendAnswers :
       GetUploadPartUrlCall(id, pn, b)
  \/ \E ps \in PartLists(MaxListLen), b \in BackendAnswers : CompleteCall(ps, b)

SpecServer == InitServer /\ [][NextServer]_vars

\* ------------------------------------- specification of the end-to-end scenarios
\* a 25 MiB file uploaded under the default configuration; an attempt may fail
\* transiently while the part has retries left, nothing else fails
File25MiB == [name |-> 8, size |-> Bytes(25 * 1024 * 1024), type |-> "image/png"]

Transient(p) == attempt[p] < MaxTransient /\ attempt[p] < config.maxRetries

\* the transient failures of a PUT in the scenarios: a non-2xx answer
TransientErrors == {ErrStatus}

InitScenario == config = DEFAULT_CONFIG /\ InitHook

NextScenario ==
  \/ UploadFile(File25MiB) /\ UNCHANGED uploader
  \/ InitiateOk
  \/ SchedStartTask
  \/ SchedLoopEnd
  \/ SchedAllFulfilled
  \/ \E p \in DOMAIN tpc : AuthorizeOk(p)
  \/ \E p \in DOMAIN tpc : Transient(p) /\ AuthorizeFail(p)
  \/ \E p \in DOMAIN tpc : TransferOk(p)
  \/ \E p \in DOMAIN tpc, e \in TransientErrors : Transient(p) /\ TransferFail(p, e)
  \/ \E p \in DOMAIN tpc : Wake(p)
  \/ CompleteOk

SpecScenario == InitScenario /\ [][NextScenario]_vars

\* ------------------------------------------------------------------ claims
OneToPartCount == [k \in 1..partCount |-> k]
ExhaustedParts == {p \in DOMAIN tpc : tpc[p] = "rejectedExhausted"}

\* C1: during uploadAllParts, the number of uploadPart tasks started and not
\* yet settled never exceeds maxConcurrentUploads.
C1_ConcurrencyBound ==
  ctl = "uploading" => Cardinality(InFlight) <= config.maxConcurrentUploads

\* C1 (where the claim's case shows): the loop is past its first race and more
\* parts remain than the limit.
C1_Witness ==
  /\ ctl = "uploading"
  /\ partCount > config.maxConcurrentUploads
  /\ Cardinality(InFlight) = config.maxConcurrentUploads
  /\ \E p \in DOMAIN tpc : tpc[p] = "fulfilled"

\* C2: every parts list uploadFile hands to completeMultipartUpload is, sorted,
\* exactly 1..partCount, and the storage backend is asked to assemble nothing else.
C2_CompleteSubmitsAllParts ==
  /\ \A i \in 1..Len(submitted) : PartNumbers(submitted[i]) = OneToPartCount
  /\ s3Parts # << >> => s3Parts = OneToPartCount

\* C3: uploadAllParts returns only when every part 1..partCount is completed
\* with a non-empty etag, and it returns exactly partCount entries.
C3_ReturnsOnlyWhenAllCompleted ==
  spc = "returned" =>
    /\ \A p \in 1..partCount :
         partStatuses[p].status = "completed" /\ partStatuses[p].etag # ""
    /\ Len(submitted[1]) = partCount

\* C4: once a part has exhausted its maxRetries + 1 attempts, uploadAllParts
\* does not return a parts list (no step takes it to its return).
C4_ExhaustedPartFailsUpload ==
  [][ExhaustedParts # {} /\ spc # "returned" => spc' # "returned"]_vars

\* C4, second half: complete is never called for an upload with an exhausted part.
C4_NoCompleteAfterExhaustion ==
  ExhaustedParts # {} => submitted = << >>

\* C5: after cancelUpload was invoked with parts in flight, no getUploadPartUrl
\* call and no PUT is started any more, by any task.
C5_NoCallsAfterCancel ==
  [][cancelled = "inFlight" =>
       /\ authorizeCalls' = authorizeCalls
       /\ \A p \in DOMAIN tpc : tpc'[p] = "transferring" => tpc[p] = "transferring"]_vars

\* C6: after cancelUpload, a part whose transfer had been started and whose task
\* was unsettled never again becomes uploading.
C6_CancelledPartsStayTerminal ==
  [][\A p \in startedAtCancel :
       partStatuses'[p].status = "uploading" => partStatuses[p].status = "uploading"]_vars

\* C7: an upload cancelled while parts were in flight has issued exactly one
\* abortMultipartUpload call when uploadFile returns.
C7_ExactlyOneAbortOnCancel ==
  ctl = "done" /\ cancelled = "inFlight" => abortCalls = 1

\* C8 (state part): with no cancellation every part makes at most
\* maxRetries + 1 attempts, the k-th wait is retryDelay * 2^(k-1) with exponential
\* backoff and retryDelay without, and a part that failed terminally made exactly
\* maxRetries + 1 attempts with maxRetries waits and carries the attempt's error.
C8_RetryScheduleInv ==
  cancelled = "no" =>
    \A p \in DOMAIN tpc :
      /\ authorizeCalls[p] <= config.maxRetries + 1
      /\ Len(sleeps[p]) <= config.maxRetries
      /\ \A k \in 1..Len(sleeps[p]) :
           sleeps[p][k] = IF config.exponentialBackoff
                          THEN config.retryDelay * Pow2(k - 1)
                          ELSE config.retryDelay
      /\ tpc[p] \notin {"rejectedAborted", "rejectedCancelled"}
      /\ tpc[p] = "sleeping" => Len(sleeps[p]) = authorizeCalls[p]
      /\ tpc[p] = "rejectedExhausted" =>
           /\ authorizeCalls[p] = config.maxRetries + 1
           /\ Len(sleeps[p]) = config.maxRetries
           /\ partStatuses[p].status = "failed"
           /\ partStatuses[p].error \in {ErrAuthorize, ErrStatus, ErrNoETag}

\* C8 (step part): a part that failed terminally waits and attempts no more.
C8_RetryScheduleStep ==
  \A p \in DOMAIN tpc :
    tpc[p] = "rejectedExhausted" =>
      /\ tpc'[p] = "rejectedExhausted"
      /\ authorizeCalls'[p] = authorizeCalls[p]
      /\ sleeps'[p] = sleeps[p]
      /\ partStatuses'[p] = partStatuses[p]

\* C8: retry exhaustion and backoff schedule of uploadPart.
C8_RetrySchedule == []C8_RetryScheduleInv /\ [][C8_RetryScheduleStep]_vars

\* C8: a part failed terminally after three attempts under exponential backoff.
C8_Witness ==
  /\ cancelled = "no"
  /\ config.exponentialBackoff
  /\ config.maxRetries = 2
  /\ \E p \in DOMAIN tpc :
       /\ tpc[p] = "rejectedExhausted"
       /\ sleeps[p] = << DEFAULT_RETRY_DELAY, 2 * DEFAULT_RETRY_DELAY >>

\* C9: abortMultipartUpload returns success whenever the backend discarded the
\* session or answers that there is no such upload, also on a second call.
C9_AbortIdempotent ==
  \A i \in 1..Len(abortResults) :
    abortResults[i].response \in {"ok", "NoSuchUpload"} => abortResults[i].success

\* C10: when uploadFile has returned null for an upload whose session was
\* opened, it has issued its abortMultipartUpload call and that call has ended.
C10_AbortOnEveryFailure ==
  result = "null" /\ s3Session # "none" => abortCalls = 1 /\ abortResults # << >>

\* C10: the three failure paths after initiate, each ended with the abort made.
C10_Witness ==
  /\ result = "null"
  /\ s3Session # "none"
  /\ abortCalls = 1
  /\ state.error = ErrComplete

\* C11 (state part): when uploadFile returned null after its abort call threw,
\* the error kept in the state is a failure's message and not the abort failure's.
C11_AbortFailureInv ==
  result = "null" /\ abortResults # << >> /\ ~abortResults[1].success =>
    state.error \notin {ErrAbort, NoError}

\* C11 (step part): the abort call's end leaves the error caught before it as it
\* is and makes uploadFile return null.
C11_AbortFailureStep ==
  ctl = "aborting" => /\ state'.error = state.error
                       /\ ctl' = "done" => result' = "null"

\* C11: a failure of the abort call itself is never escalated: uploadFile still
\* returns null and the state keeps the original failure's message.
C11_AbortFailureNotEscalated == []C11_AbortFailureInv /\ [][C11_AbortFailureStep]_vars

\* C11: a part exhausted its attempts, the abort call threw, uploadFile returned.
C11_Witness ==
  /\ result = "null"
  /\ abortResults # << >>
  /\ ~abortResults[1].success
  /\ state.error = ErrStatus

\* the validation errors of initiateMultipartUpload
ValidationErrors ==
  {ErrFileTooLarge, ErrFileEmpty, ErrContentType, ErrNoFilename, ErrLongFilename}

\* a request as C12 describes a valid one: 0 < fileSize <= 1 GiB (one Radix), an
\* allowed contentType and a filename of 1..255 characters
C12_ValidRequest(req) ==
  /\ \/ req.size.hi = 0 /\ req.size.lo > 0
     \/ req.size.hi = 1 /\ req.size.lo = 0
  /\ req.type \in ALLOWED_MIME_TYPES
  /\ 1 <= req.name /\ req.name <= 255

\* C12 (state part): initiateMultipartUpload answers a request that fails
\* validation with a validation error without calling the storage backend, and
\* a valid request (fileSize up to exactly 1 GiB) gets past validation to the backend.
C12_ValidationInv ==
  rpc.fn = "initiate" =>
    IF C12_ValidRequest(rpc.request)
    THEN rpc.backend # "none" /\ rpc.error \notin ValidationErrors
    ELSE rpc.backend = "none" /\ rpc.error \in ValidationErrors

\* C12 (step part): an initiate call that fails validation opens no session.
C12_ValidationStep ==
  rpcCount' # rpcCount /\ rpc'.fn = "initiate" /\ ~C12_ValidRequest(rpc'.request) =>
    s3Session' = s3Session

\* C12: initiateMultipartUpload rejects every invalid request before any backend
\* call, so no session is opened; a request of exactly 1 GiB with an allowed
\* type and a 1..255-character filename passes validation.
C12_ValidationBeforeBackend == []C12_ValidationInv /\ [][C12_ValidationStep]_vars

\* C12: a file of exactly 1 GiB with a 255-character name opened a session.
C12_Witness ==
  /\ rpc.fn = "initiate"
  /\ rpc.request.size = Bytes(MAX_FILE_SIZE)
  /\ rpc.request.name = MAX_FILENAME_LENGTH
  /\ rpc.error = NoError
  /\ s3Session = "open"

\* fileSize needs more than MAX_PARTS parts of DEFAULT_PART_SIZE
C13_OverMaxParts(size) == CeilDiv(size, DEFAULT_PART_SIZE) > MAX_PARTS

\* C13 as stated: initiate answers partCount = ceil(fileSize / 10 MiB), and a
\* fileSize of more than 10000 parts fails with the too-many-parts error and
\* without a backend session.
C13_TooManyPartsError ==
  rpc.fn = "initiate" =>
    /\ rpc.error = NoError =>
         LET n == rpc.request.size.hi * Radix + rpc.request.size.lo IN
         (rpc.value - 1) * DEFAULT_PART_SIZE < n /\ n <= rpc.value * DEFAULT_PART_SIZE
    /\ C13_OverMaxParts(rpc.request.size) =>
         rpc.error = ErrTooManyParts /\ rpc.backend = "none"

\* C13, amended: initiate answers partCount = ceil(fileSize / 10 MiB), which is
\* at most 103 <= MAX_PARTS; a fileSize of more than 10000 parts is over the size
\* limit and fails validation with the file-size error, without a backend call;
\* the too-many-parts error is never the answer.
C13_PartCountIsCeiling ==
  rpc.fn = "initiate" =>
    /\ rpc.error = NoError =>
         LET n == rpc.request.size.hi * Radix + rpc.request.size.lo IN
         /\ (rpc.value - 1) * DEFAULT_PART_SIZE < n /\ n <= rpc.value * DEFAULT_PART_SIZE
         /\ rpc.value <= 103
    /\ C13_OverMaxParts(rpc.request.size) =>
         rpc.error = ErrFileTooLarge /\ rpc.backend = "none"
    /\ rpc.error # ErrTooManyParts

\* C13: a file of 98 GiB (10036 parts) was refused.
C13_Witness ==
  /\ rpc.fn = "initiate"
  /\ C13_OverMaxParts(rpc.request.size)
  /\ rpc.request.type \in ALLOWED_MIME_TYPES
  /\ rpc.error # NoError
  /\ s3Session = "none"

C14_Numbers(ps) == {ps[i].partNumber : i \in 1..Len(ps)}

\* the least number of 1..N that is not in the list (N = its length)
C14_FirstMissing(ps) ==
  CHOOSE k \in 1..Len(ps) :
    k \notin C14_Numbers(ps) /\ \A j \in 1..(k - 1) : j \in C14_Numbers(ps)

\* C14: completeMultipartUpload rejects an empty parts list; it accepts a list
\* exactly when its part numbers are 1..N without gap or duplicate; a rejection
\* happens without a backend call and its error names the first missing number.
C14_CompleteValidation ==
  rpc.fn = "complete" =>
    LET ps == rpc.request.parts
        complete == Cardinality(C14_Numbers(ps)) = Len(ps) /\ C14_Numbers(ps) = 1..Len(ps)
    IN /\ Len(ps) = 0 => rpc.error = ErrNoParts /\ rpc.backend = "none"
       /\ Len(ps) > 0 /\ complete => rpc.backend # "none"
       /\ Len(ps) > 0 /\ ~complete =>
            /\ rpc.error = ErrMissingPart
            /\ rpc.backend = "none"
            /\ rpc.value = C14_FirstMissing(ps)

\* C14 without the named number: what the validation accepts and rejects.
C14_AcceptsExactlyOneToN ==
  rpc.fn = "complete" =>
    LET ps == rpc.request.parts
        complete == Cardinality(C14_Numbers(ps)) = Len(ps) /\ C14_Numbers(ps) = 1..Len(ps)
    IN /\ Len(ps) = 0 => rpc.error = ErrNoParts /\ rpc.backend = "none"
       /\ Len(ps) > 0 /\ complete => rpc.backend # "none"
       /\ Len(ps) > 0 /\ ~complete => rpc.error = ErrMissingPart /\ rpc.backend = "none"

\* C15: getUploadPartUrl answers a partNumber below 1 or above 10000 with the
\* part-number error without asking for a signed URL; for 1..10000 it asks the
\* signer and, the signer answering, returns the URL with the same partNumber,
\* however many calls were made before it and in whatever state the session is.
C15_PartUrlStateless ==
  rpc.fn = "getUploadPartUrl" /\ rpc.request.uploadId # "null" =>
    IF rpc.request.partNumber < 1 \/ rpc.request.partNumber > 10000
    THEN rpc.error = ErrPartNumber /\ rpc.backend = "none"
    ELSE /\ rpc.backend # "none"
         /\ rpc.backend = "ok" => rpc.error = NoError /\ rpc.value = rpc.request.partNumber

\* C15: the third call in a row for the same (uploadId, partNumber) succeeded.
C15_Witness ==
  /\ rpc.fn = "getUploadPartUrl"
  /\ rpc.request.partNumber = MAX_PARTS
  /\ rpc.repeats = 2
  /\ rpc.error = NoError
  /\ rpc.value = MAX_PARTS

\* C16: within one upload the progress value of the upload state never
\* decreases, from uploadFile's reset to 0 on, also after it was set to 100.
C16_ProgressMonotonic ==
  [][state'.progress >= state.progress]_vars

\* C17: scenario A: a 25 MiB file under the default configuration has three
\* parts, and once all three have succeeded complete is called exactly once, with
\* the three (partNumber, etag) pairs in the order 1, 2, 3, whatever order they
\* finished in.
C17_ScenarioA ==
  /\ ctl \notin {"idle", "initiating"} => partCount = 3
  /\ Len(submitted) <= 1
  /\ \A i \in 1..Len(submitted) :
       submitted[i] = [k \in 1..3 |-> [partNumber |-> k, etag |-> "etag"]]
  /\ partCount = 3 /\ (\A p \in 1..3 : tpc[p] = "fulfilled") /\ ~MicrotaskPending =>
       Len(submitted) = 1

\* C17: the parts finished in the order 3, 1, 2 and the upload completed.
C17_Witness ==
  /\ PartNumbers(parts) = << 3, 1, 2 >>
  /\ Len(submitted) = 1
  /\ result = "key"

\* C18 as stated: in scenario D (part 2 of 3 fails twice and succeeds on its
\* third attempt) the upload completes and the progress passes through 0, 33,
\* 66 and 100.
C18_ProgressThrough66 ==
  /\ result # "null"
  /\ result = "key" /\ attempt = << 0, 2, 0 >> => {0, 33, 66, 100} \subseteq progressSeen

\* C18, amended: in the scenarios no upload fails or gets stuck, and in scenario
\* D the upload completes with the progress values 0, 33, 67 and 100 (two of
\* three parts round to 67).
C18_ScenarioD ==
  /\ result # "null"
  /\ state.error = NoError
  /\ ctl = "done" \/ ENABLED NextScenario
  /\ ctl = "done" => result = "key" /\ state.isComplete
  /\ result = "key" /\ attempt = << 0, 2, 0 >> => progressSeen = {0, 33, 67, 100}

\* C18: part 2 succeeded on its third attempt, the others on their first, and
\* the upload completed.
C18_Witness ==
  /\ result = "key"
  /\ attempt = << 0, 2, 0 >>
  /\ partStatuses[2].retries = 2
  /\ Len(sleeps[2]) = 2

\* C19: an upload whose session was opened and that cancelUpload hit while it was
\* initiating, uploading parts or completing ends on the failure path: uploadFile
\* returns null, the abort call was issued, and the error surfaced is
\* 'Upload cancelled'.
C19_CancelSurfacesCancelled ==
  /\ ctl = "done"
  /\ cancelPhase \in {"initiating", "uploading", "completing"}
  /\ uploadId # "null"
  => /\ result = "null"
     /\ abortCalls = 1
     /\ state.error = ErrCancelled

\* C20 (state part): when uploadFile has returned, isUploading is false, exactly
\* one of isComplete and error # null holds, a null result comes with an error
\* message and a non-null result with isComplete and a completed session.
C20_ReturnMatchesStateInv ==
  ctl = "done" =>
    /\ ~state.isUploading
    /\ state.isComplete # (state.error # NoError)
    /\ result \in {"key", "null"}
    /\ result = "null" => state.error # NoError
    /\ result = "key" => state.isComplete /\ s3Session = "completed"

\* C20 (step part): uploadFile's result becomes non-null exactly in the step in
\* which completeMultipartUpload resolves, and is never taken back.
C20_ReturnMatchesStateStep ==
  (result' = "key") =
    \/ result = "key"
    \/ ctl = "completing" /\ ctl' = "done" /\ s3Session = "open" /\ s3Session' = "completed"

\* C20: uploadFile returns a non-null result exactly when completeMultipartUpload
\* succeeded and null with an error message otherwise; after it returned,
\* isUploading is false and exactly one of isComplete and error # null holds.
C20_ReturnMatchesState == []C20_ReturnMatchesStateInv /\ [][C20_ReturnMatchesStateStep]_vars

\* C20: an upload that returned its key.
C20_Witness ==
  /\ ctl = "done"
  /\ result = "key"
  /\ state.isComplete
  /\ state.error = NoError

\* C21: when initiateMultipartUpload failed, uploadFile surfaced the error and
\* stopped: it returned null without any authorize, transfer, complete or abort
\* call, and no session exists.
C21_InitiateFailureStops ==
  ctl \in {"aborting", "done"} /\ uploadId = "null" =>
    /\ ctl = "done"
    /\ result = "null"
    /\ state.error \in ValidationErrors \cup {ErrInitiate}
    /\ tpc = << >>
    /\ authorizeCalls = << >>
    /\ submitted = << >>
    /\ abortCalls = 0
    /\ abortResults = << >>
    /\ s3Session = "none"

\* C21: the backend refused to open a session for a valid file.
C21_Witness ==
  /\ ctl = "done"
  /\ uploadId = "null"
  /\ state.error = ErrInitiate
  /\ file.type \in ALLOWED_MIME_TYPES

\* C22: uploadFile calls completeMultipartUpload at most once; a failed or
\* unanswered complete call is followed by no second one.
C22_CompleteAtMostOnce ==
  /\ Len(submitted) <= 1
  /\ state.error = ErrComplete => Len(submitted) = 1 /\ ctl \in {"aborting", "done"}

\* C22: the backend assembled the object but the answer was lost; uploadFile
\* returned null after its one complete call.
C22_Witness ==
  /\ ctl = "done"
  /\ result = "null"
  /\ state.error = ErrComplete
  /\ s3Session = "completed"
  /\ Len(submitted) = 1

\* ------------------------------------------- specification of the FileUploader
\* FileUploader's maxSize prop, default 1 GiB (FileUploader.tsx line 45)
DEFAULT_MAX_SIZE == 1073741824

ErrComponentTooLarge == "File size exceeds maximum allowed size of"
ErrComponentEmpty == "File is empty"

\* FileUploader.validateFile, lines 78-88
componentValidateFile(f) ==
  IF BytesGreater(f.size, DEFAULT_MAX_SIZE) THEN ErrComponentTooLarge
  ELSE IF f.size = Bytes(0) THEN ErrComponentEmpty
  ELSE NoError

\* FileUploader.handleFileSelect up to its await, lines 93-103. The drop zone
\* that calls it is rendered only while the hook is idle without an error
\* (line 195), and the handler keeps the error of that render.
HandleFileSelect(f) ==
  /\ uploader.handler = "none"
  /\ ~state.isUploading /\ ~state.isComplete /\ state.error = NoError
  /\ IF componentValidateFile(f) # NoError
     THEN /\ uploader' = [uploader EXCEPT
                            !.handler = "rejected",
                            !.callbacks = Append(@, [name |-> "onUploadError",
                                                     arg |-> componentValidateFile(f)])]
          /\ UNCHANGED << config, file, state, progressSeen, partStatuses,
                          abortControllerRef, ctl, uploadId, partCount, result, spc,
                          nextTask, executing, parts, tpc, attempt, sleeps,
                          authorizeCalls, transferStarted, transfers, initPartSize, queue, partKeys, second, submitted, abortCalls,
                          abortResults, s3Session, s3Parts, cancelled,
                          startedAtCancel, cancelPhase, rpc, rpcCount >>
     ELSE /\ UploadFile(f)
          /\ uploader' = [uploader EXCEPT !.handler = "awaiting", !.error = state.error]

FilesSelected ==
  Files \cup { [name |-> 8, size |-> [hi |-> 1, lo |-> 1], type |-> "image/png"] }

InitUploader == config \in Configs /\ InitHook

NextUploader ==
  \/ \E f \in FilesSelected :
       (componentValidateFile(f) = NoError => Explored(f)) /\ HandleFileSelect(f)
  \/ InitiateOk
  \/ InitiateFail
  \/ SchedStartTask
  \/ SchedRaceFulfilled
  \/ SchedRaceRejected
  \/ SchedLoopEnd
  \/ SchedAllRejected
  \/ SchedAllFulfilled
  \/ \E p \in DOMAIN tpc : AuthorizeOk(p)
  \/ \E p \in DOMAIN tpc : AuthorizeFail(p)
  \/ \E p \in DOMAIN tpc : TransferOk(p)
  \/ \E p \in DOMAIN tpc, e \in TransferErrors : TransferFail(p, e)
  \/ \E p \in DOMAIN tpc : Wake(p)
  \/ CompleteOk
  \/ \E lost \in BOOLEAN : CompleteFail(lost)
  \/ \E r \in {"ok", "NoSuchUpload", "ServiceUnavailable"} : AbortReturn(r)
  \/ \E r \in {"ok", "NoSuchUpload", "ServiceUnavailable"} : AbortAgain(r)
  \/ CancelUpload

SpecUploader == InitUploader /\ [][NextUploader]_vars

\* C23: once the handleFileSelect of a started upload has gone past its await,
\* exactly one callback has fired: onUploadComplete with the result when
\* uploadFile resolved to a result, onUploadError with the failure's message
\* when it resolved to null.
C23_ExactlyOneCallback ==
  uploader.handler = "returned" =>
    /\ Len(uploader.callbacks) = 1
    /\ result = "key" =>
         uploader.callbacks[1] = [name |-> "onUploadComplete", arg |-> "key"]
    /\ result = "null" =>
         uploader.callbacks[1] = [name |-> "onUploadError", arg |-> state.error]

C24_Transitions ==
  { <<"pending", "uploading">>, <<"uploading", "completed">>,
    <<"uploading", "failed">>, <<"failed", "uploading">> }

\* C24: every PartRecord is created pending and its status changes only along
\* pending -> uploading, uploading -> completed, uploading -> failed and
\* failed -> uploading; a completed record keeps its status and etag, and a
\* record that failed its last attempt (retries = maxRetries) stays failed.
C24_StatusTransitions ==
  [][ /\ partStatuses = << >> =>
           \A p \in DOMAIN partStatuses' : partStatuses'[p].status = "pending"
      /\ \A p \in DOMAIN partStatuses :
           /\ p \in DOMAIN partStatuses'
           /\ \/ partStatuses'[p].status = partStatuses[p].status
              \/ << partStatuses[p].status, partStatuses'[p].status >> \in C24_Transitions
           /\ partStatuses[p].status = "completed" =>
                /\ partStatuses'[p].status = "completed"
                /\ partStatuses'[p].etag = partStatuses[p].etag
           /\ partStatuses[p].status = "failed" /\ partStatuses[p].retries = config.maxRetries =>
                partStatuses'[p].status = "failed" ]_vars

\* one part completed after a retry while another failed its last attempt
C24_Witness ==
  \E p, q \in DOMAIN partStatuses :
    /\ partStatuses[p].status = "completed" /\ partStatuses[p].retries >= 1
    /\ partStatuses[q].status = "failed" /\ partStatuses[q].retries = config.maxRetries
    /\ ctl = "done"

\* C25: a part whose attempt began after cancellation was signalled (its task
\* threw 'Upload cancelled' at the top of the retry loop) has a PartRecord in
\* status failed with the reason Cancelled; it is not left pending.
C25_CancelledAttemptFails ==
  \A p \in DOMAIN tpc :
    tpc[p] = "rejectedCancelled" =>
      /\ partStatuses[p].status = "failed"
      /\ partStatuses[p].error = ErrCancelled

\* C26: every PUT of a part goes to the URL returned by the getUploadPartUrl
\* call of its own attempt, so no two PUTs of a part share a URL; per part the
\* PUTs are at most as many as the getUploadPartUrl calls, and these are at
\* most maxRetries + 1.
C26_FreshUrlPerAttempt ==
  \A p \in DOMAIN transfers :
    /\ Len(transfers[p]) <= authorizeCalls[p]
    /\ authorizeCalls[p] <= config.maxRetries + 1
    /\ \A i \in 1..Len(transfers[p]) :
         /\ transfers[p][i].url = transfers[p][i].attempt + 1
         /\ \A j \in 1..Len(transfers[p]) : i # j => transfers[p][i].url # transfers[p][j].url

\* a part used its whole budget: one attempt ended at a failed authorize call,
\* two others reached the PUT
C26_Witness ==
  \E p \in DOMAIN transfers :
    /\ authorizeCalls[p] = config.maxRetries + 1
    /\ Len(transfers[p]) = 2
    /\ authorizeCalls[p] = 3
    /\ tpc[p] = "rejectedExhausted"

\* C27: a PartRecord is completed only with a non-empty etag, every entry of a
\* list passed to complete has a non-empty etag, and a part whose last attempt
\* ended at 'No ETag returned' is failed: waiting for a retry while attempts
\* remain, rejected once the last attempt is spent (or the upload cancelled).
C27_NoETagIsFailure ==
  /\ \A p \in DOMAIN partStatuses :
       /\ partStatuses[p].status = "completed" => partStatuses[p].etag # ""
       /\ partStatuses[p].status = "failed" /\ partStatuses[p].error = ErrNoETag =>
            \/ tpc[p] = "sleeping" /\ attempt[p] < config.maxRetries
            \/ tpc[p] = "rejectedExhausted" /\ attempt[p] = config.maxRetries
            \/ tpc[p] \in {"rejectedAborted", "rejectedCancelled"}
       /\ partStatuses[p].error = ErrNoETag /\ partStatuses[p].status # "completed" =>
            partStatuses[p].etag = ""
  /\ \A i \in 1..Len(submitted) : \A j \in 1..Len(submitted[i]) : submitted[i][j].etag # ""

\* a part answered without ETag, was retried and completed, and the list was
\* passed to complete
C27_Witness ==
  /\ submitted # << >>
  /\ \E p \in DOMAIN partStatuses :
       /\ partStatuses[p].error = ErrNoETag
       /\ partStatuses[p].status = "completed"
       /\ partStatuses[p].retries >= 1

\* C28: once uploadAllParts has thrown (a race or the final Promise.all
\* rejected), it stays terminated and no task that was not started is started:
\* a part still queued stays queued and its PartRecord stays pending.
C28_NoStartAfterFailure ==
  [][ spc = "threw" =>
        /\ spc' = "threw"
        /\ nextTask' = nextTask
        /\ executing' = executing
        /\ \A p \in DOMAIN tpc :
             tpc[p] = "queued" =>
               /\ tpc'[p] = "queued"
               /\ partStatuses'[p].status = "pending"
               /\ authorizeCalls'[p] = 0 ]_vars

\* uploadFile has returned after uploadAllParts threw with a part never started
C28_Witness ==
  /\ spc = "threw"
  /\ ctl = "done"
  /\ \E p \in DOMAIN tpc : tpc[p] = "queued" /\ partStatuses[p].status = "pending"
  /\ \E p \in DOMAIN tpc : tpc[p] = "rejectedExhausted"

C29_Unstarted == {p \in DOMAIN tpc : tpc[p] = "queued"}

\* C29: parts are started in ascending partNumber order, and while no task has
\* been rejected, the upload is not cancelled and unstarted parts remain, the
\* scheduler rests (no continuation of its loop is ready to run) only with at
\* least maxConcurrentUploads tasks in flight.
C29_SlidingWindow ==
  /\ \A p, q \in DOMAIN tpc : p < q /\ tpc[p] = "queued" => tpc[q] = "queued"
  /\ ( /\ ctl = "uploading"
       /\ ~MicrotaskPending
       /\ abortControllerRef = "live"
       /\ \A p \in DOMAIN tpc : ~Rejected(p)
       /\ C29_Unstarted # {} )
     => Cardinality(InFlight) >= config.maxConcurrentUploads

\* part 2 of a window of two finished and part 3 was started next to the
\* running part 1, with part 4 still to start
C29_Witness ==
  /\ ctl = "uploading"
  /\ ~MicrotaskPending
  /\ config.maxConcurrentUploads = 2
  /\ partCount = 4
  /\ tpc[2] = "fulfilled"
  /\ {1, 3} \subseteq InFlight
  /\ tpc[4] = "queued"

\* ------------------------------------------------ specification of the byte ranges
MaxFileSize == 24
MaxPartSize == 6

\* lines 259-271 for any file size and any part size initiate may answer, with
\* the partCount initiate computes for them
QueueParts(fileSize, ps) ==
  /\ queue = << >>
  /\ file' = [name |-> 8, size |-> Bytes(fileSize), type |-> "image/png"]
  /\ initPartSize' = ps
  /\ partCount' = calculatePartCount(Bytes(fileSize), ps)
  /\ queue' = Queue(fileSize, ps, partCount')
  /\ UNCHANGED << config, state, progressSeen, partStatuses, abortControllerRef, ctl,
                  uploadId, result, spc, nextTask, executing, parts, tpc, attempt,
                  sleeps, authorizeCalls, transferStarted, transfers, partKeys, second,
                  submitted, abortCalls, abortResults, s3Session, s3Parts, cancelled,
                  startedAtCancel, cancelPhase, rpc, rpcCount, uploader >>

InitRanges == config = DEFAULT_CONFIG /\ InitHook

NextRanges == \E fileSize \in 1..MaxFileSize, ps \in 1..MaxPartSize : QueueParts(fileSize, ps)

SpecRanges == InitRanges /\ [][NextRanges]_vars

\* C30: the queue holds partCount = ceil(fileSize / partSize) parts; part n is
\* bound to [(n-1)*partSize, min(n*partSize, fileSize)), which is not empty;
\* the first range starts at 0, each next one starts where the one before
\* ends, and the last ends at fileSize, so the ranges are disjoint and cover
\* exactly [0, fileSize).
C30_RangesPartitionFile ==
  queue # << >> =>
    LET fileSize == SizeOf(file.size) IN
    /\ Len(queue) = partCount
    /\ (partCount - 1) * initPartSize < fileSize /\ fileSize <= partCount * initPartSize
    /\ \A n \in 1..partCount :
         /\ queue[n].partNumber = n
         /\ queue[n].start = (n - 1) * initPartSize
         /\ queue[n].end = (IF n * initPartSize < fileSize THEN n * initPartSize ELSE fileSize)
         /\ queue[n].start < queue[n].end
    /\ \A b \in 0..(fileSize - 1) :
         Cardinality({n \in 1..partCount : queue[n].start <= b /\ b < queue[n].end}) = 1
    /\ \A n \in 1..partCount : 0 <= queue[n].start /\ queue[n].end <= fileSize

\* a file of several parts whose last part is shorter than the part size
C30_Witness ==
  /\ Len(queue) >= 3
  /\ queue[Len(queue)].end - queue[Len(queue)].start < initPartSize
  /\ queue[1].end - queue[1].start = initPartSize

\* ------------------------------- specification of the hook with reset() callable
InitReset == config \in Configs /\ InitHook

NextReset ==
  \/ Next
  \/ ~MicrotaskPending /\ Reset

SpecReset == InitReset /\ [][NextReset]_vars

\* C31: from the moment uploadAllParts has initialised the part statuses until
\* uploadFile returns, the keys of the map of part statuses are exactly
\* 1..partCount, whichever public operations are invoked meanwhile.
C31_KeysAreOneToPartCount ==
  spc # "idle" /\ result = "pending" => partKeys = 1..partCount

C32_Completed == {p \in DOMAIN partStatuses : partStatuses[p].status = "completed"}

\* C32: once the part statuses exist, the published state agrees with them:
\* uploadedParts is the number of completed PartRecords and progress is
\* round(100 * uploadedParts / totalParts), also in the state that marks the
\* upload complete.
C32_StateMatchesParts ==
  partStatuses # << >> =>
    /\ state.uploadedParts = Cardinality(C32_Completed)
    /\ state.totalParts = partCount
    /\ state.progress = RoundPercent(state.uploadedParts, state.totalParts)

\* C33: the cancelUpload step, and every step after it, leaves each completed
\* PartRecord as it is (status and etag) and does not lower uploadedParts; the
\* cancelUpload step itself touches neither the parts collected nor the
\* backend's session, which only the abort call issued by uploadFile discards.
C33_CancelKeepsCompleted ==
  [][ (abortControllerRef = "live" /\ abortControllerRef' = "aborted")
      \/ abortControllerRef = "aborted" \/ cancelled # "no"
      => /\ \A p \in DOMAIN partStatuses :
              partStatuses[p].status = "completed" =>
                /\ partStatuses'[p].status = "completed"
                /\ partStatuses'[p].etag = partStatuses[p].etag
         /\ state'.uploadedParts >= state.uploadedParts
         /\ (abortControllerRef = "live" /\ abortControllerRef' = "aborted") =>
              /\ parts' = parts
              /\ s3Session' = s3Session
              /\ abortCalls' = abortCalls
         /\ (s3Session = "open" /\ s3Session' = "aborted") => abortCalls >= 1 ]_vars

\* a cancelled upload that has ended with one part completed before the cancel
\* and another part's PUT aborted by it
C33_Witness ==
  /\ cancelled = "inFlight"
  /\ ctl = "done"
  /\ state.uploadedParts >= 1
  /\ \E p \in DOMAIN partStatuses : partStatuses[p].status = "completed" /\ partStatuses[p].etag = "etag"
  /\ \E q \in DOMAIN tpc : tpc[q] = "rejectedAborted" /\ partStatuses[q].error = ErrAbortError

\* C34: a getUploadPartUrl call or a PUT starts only for an opened session, and
\* none starts once uploadFile has issued complete or abort for the session.
C34_CallsBetweenInitiateAndEnd ==
  [][ /\ uploadId = "null" /\ uploadId' = "null" =>
           authorizeCalls' = authorizeCalls /\ transfers' = transfers
      /\ submitted # << >> \/ abortCalls > 0 =>
           /\ authorizeCalls' = authorizeCalls
           /\ transfers' = transfers ]_vars

\* C35: for an upload whose session was opened, the error message and
\* isUploading = FALSE are in the upload state only once the abort call made
\* for the failure has ended (returned or thrown).
C35_AbortBeforeErrorSurfaces ==
  uploadId # "null" /\ state.error # NoError /\ ~state.isUploading => abortResults # << >>

\* C36 (how an upload ends): when uploadFile has returned for an opened session,
\* isUploading is FALSE and every part succeeded, or some part task was
\* rejected for good, or the upload was cancelled.
C36_EndsOnlyWhenPartsDecided ==
  ctl = "done" /\ uploadId # "null" =>
    /\ ~state.isUploading
    /\ \/ \A p \in DOMAIN partStatuses : partStatuses[p].status = "completed"
       \/ \E p \in DOMAIN tpc : Rejected(p)
       \/ cancelled # "no"

\* ------------------------- specification of a second uploadFile on the same hook
\* uploadFile (lines 301-329) invoked while an upload of the same hook is in
\* progress: nothing guards the call, and it resets the one state and replaces
\* the one AbortController of the hook.
UploadFileSecond(f) ==
  /\ ~MicrotaskPending
  /\ ctl \in {"initiating", "uploading", "completing", "aborting"}
  /\ second.ctl = "none"
  /\ second' = [ctl |-> "initiating", file |-> f]
  /\ state' = [InitialState EXCEPT !.isUploading = TRUE]
  /\ progressSeen' = progressSeen \cup {state'.progress}
  /\ abortControllerRef' = "live"
  /\ UNCHANGED << config, file, partStatuses, ctl, uploadId, partCount, result, spc,
                  nextTask, executing, parts, tpc, attempt, sleeps, authorizeCalls,
                  transferStarted, transfers, initPartSize, queue, partKeys, submitted,
                  abortCalls, abortResults, s3Session, s3Parts, cancelled,
                  startedAtCancel, cancelPhase, rpc, rpcCount, uploader >>

\* the second uploadFile after its initiateMultipartUpload threw (lines 370-394):
\* its uploadId is null, so there is no abort call; the error goes into the one
\* state and finally nulls the one abortControllerRef.
SecondInitiateFail ==
  /\ second.ctl = "initiating"
  /\ second' = [second EXCEPT !.ctl = "done"]
  /\ state' = FailedState(state, IF initiateCheck(second.file) = NoError
                                 THEN ErrInitiate ELSE initiateCheck(second.file))
  /\ abortControllerRef' = "null"
  /\ UNCHANGED << config, file, progressSeen, partStatuses, ctl, uploadId, partCount,
                  result, spc, nextTask, executing, parts, tpc, attempt, sleeps,
                  authorizeCalls, transferStarted, transfers, initPartSize, queue,
                  partKeys, submitted, abortCalls, abortResults, s3Session, s3Parts,
                  cancelled, startedAtCancel, cancelPhase, rpc, rpcCount, uploader >>

\* the file of the second upload: one whose content type the server refuses
SecondFiles == { [name |-> 8, size |-> Bytes(1), type |-> "application/zip"] }

InitSecond == config \in Configs /\ InitHook

\* The first upload runs as in Next; cancelUpload is explored while the
\* controller in abortControllerRef is the first upload's own.
NextSecond ==
  \/ \E f \in Files : Explored(f) /\ UploadFile(f) /\ UNCHANGED uploader
  \/ InitiateOk
  \/ InitiateFail
  \/ SchedStartTask
  \/ SchedRaceFulfilled
  \/ SchedRaceRejected
  \/ SchedLoopEnd
  \/ SchedAllRejected
  \/ SchedAllFulfilled
  \/ \E p \in DOMAIN tpc : AuthorizeOk(p)
  \/ \E p \in DOMAIN tpc : AuthorizeFail(p)
  \/ \E p \in DOMAIN tpc : TransferOk(p)
  \/ \E p \in DOMAIN tpc, e \in TransferErrors : TransferFail(p, e)
  \/ \E p \in DOMAIN tpc : Wake(p)
  \/ CompleteOk
  \/ \E lost \in BOOLEAN : CompleteFail(lost)
  \/ \E r \in {"ok", "NoSuchUpload", "ServiceUnavailable"} : AbortReturn(r)
  \/ \E r \in {"ok", "NoSuchUpload", "ServiceUnavailable"} : AbortAgain(r)
  \/ second.ctl = "none" /\ CancelUpload
  \/ \E f \in SecondFiles : UploadFileSecond(f)
  \/ SecondInitiateFail

SpecSecond == InitSecond /\ [][NextSecond]_vars

\* C37: two uploads in progress at the same time are independent: no step of
\* one upload changes the aggregate state, the cancellation token or the part
\* records of the other, so an upload that succeeded reports no error.
C37_SecondUploadLeavesFirstAlone ==
  [][ /\ (second' # second /\ ctl \notin {"idle", "done"})
        => /\ state' = state
           /\ abortControllerRef' = abortControllerRef
           /\ partStatuses' = partStatuses
           /\ partKeys' = partKeys
      /\ (result' = "key" /\ result # "key") => state'.error = NoError ]_vars

\* C38: a request that passes validateFile (0 < fileSize <= 1 GiB) has a part
\* count between 1 and 103, and initiate never answers it with the
\* too-many-parts error.
C38_PartCountAfterValidation ==
  (rpc.fn = "initiate"
     /\ validateFile(rpc.request.name, rpc.request.size, rpc.request.type) = NoError)
  => /\ calculatePartCount(rpc.request.size, DEFAULT_PART_SIZE) \in 1..103
     /\ rpc.error # ErrTooManyParts
     /\ rpc.error = NoError => rpc.value \in 1..103

\* C38: a file of exactly 1 GiB passed validation and got 103 parts.
C38_Witness ==
  /\ rpc.fn = "initiate"
  /\ rpc.request.size = Bytes(MAX_FILE_SIZE)
  /\ rpc.error = NoError
  /\ rpc.value = 103

\* C39: after cancelUpload was invoked while uploadAllParts was running (initiate
\* had succeeded, uploadAllParts had not returned), completeMultipartUpload is
\* never called for that upload, whatever the order of the cancel and the
\* part completions.
C39_NoCompleteAfterCancel ==
  /\ [](cancelPhase = "uploading"
          => submitted = << >> /\ ctl # "completing" /\ result # "key")
  /\ [][cancelPhase' = "uploading" /\ cancelPhase # "uploading"
          => submitted = << >> /\ uploadId # "null" /\ spc \in {"race", "all"}]_vars

\* C39: the cancel came after a part had completed and while another was in
\* flight, and uploadFile has returned.
C39_Witness ==
  /\ cancelPhase = "uploading"
  /\ ctl = "done"
  /\ \E p \in DOMAIN tpc : tpc[p] = "fulfilled"
  /\ \E p \in DOMAIN tpc : tpc[p] = "rejectedAborted"
  /\ result = "null"
====
